---- MODULE Spec2Model ----
(***************************************************************************)
(* Agent_Template: the tool-calling chat node (backend/src/agent/graph.py) *)
(* and the pandapower analysis session behind its tools                    *)
(* (backend/src/mcp/panda_mcp.py).                                         *)
(*                                                                         *)
(* Text is modelled as a tuple of pieces: an f-string is the tuple of its  *)
(* literal and interpolated parts, so two texts are equal exactly when     *)
(* they are built from the same parts.                                     *)
(***************************************************************************)
EXTENDS Integers, Sequences, FiniteSets, TLC

VARIABLES
    \* ---- graph.py ----
    mcp_client,      \* module global _mcp_client
    tools_enumerated,\* get_tools() has been called in this process
    binding,         \* what get_mcp_tools was given and did in this turn
    pc,              \* position of chat_node: idle, first_pass, tools, done, failed
    state_messages,  \* state["messages"], as submitted by the caller
    tools,           \* the tool list of this turn
    messages,        \* messages built on line 162
    response,        \* the first model response
    idx,             \* position of execute_all_tools in response.tool_calls
    tool_results,    \* tool_results of execute_all_tools
    in_flight,       \* the calls whose invocation is awaited and has not returned
    final_response,  \* the second model response
    update,          \* the "messages" of the returned state update
    out_state,       \* ChatState after the add_messages reducer took the update
    failure,         \* the exception that left chat_node, <<>> when none
    llm_log,         \* every llm.invoke of this turn: what was submitted, how it ended
    tool_log,        \* every tool invocation of this turn
    \* ---- panda_mcp.py ----
    current_net,     \* module global _current_net
    ever_loaded,     \* a create or load has returned success
    installed,       \* the network the last create or load that succeeded put in place
    lar,             \* a load_and_run_power_flow call taken statement by statement
    last             \* the last tool function call: its input, what it did, its result

chatVars == <<mcp_client, tools_enumerated, binding, pc, state_messages, tools, messages, response, idx,
              tool_results, in_flight, final_response, update, out_state, failure,
              llm_log, tool_log>>
sessionVars == <<current_net, ever_loaded, installed, lar, last>>
vars == <<chatVars, sessionVars>>

\* ------------------------------------------------------------------ bounds

\* The longest tool-call list of a first model response.
MaxCalls == 2

\* ------------------------------------------------------------- sequences

RECURSIVE SeqsUpTo(_, _)
\* Every sequence over S of length at most n.
SeqsUpTo(S, n) ==
    IF n = 0 THEN {<<>>}
    ELSE LET shorter == SeqsUpTo(S, n - 1)
         IN  shorter \cup {Append(s, x) : s \in {t \in shorter : Len(t) = n - 1}, x \in S}

\* =====================================================================
\*                              graph.py
\* =====================================================================

NoClient == [kind |-> "None", servers |-> "None"]
NoResponse == [role |-> "None", content |-> <<>>, tool_calls |-> <<>>]

\* The absent "id" / "args" key of a tool call.
NoId == <<>>
NoArgs == "absent"
EmptyArgs == "{}"

ToolNames == {"load_network", "run_power_flow"}
CallNames == ToolNames \cup {"Load_Network"}

\* What MultiServerMCPClient.get_tools() can return.
ToolLists ==
    { <<>>,
      <<[name |-> "load_network"]>>,
      <<[name |-> "load_network"], [name |-> "run_power_flow"]>> }

ToolCalls ==
    [name : CallNames, id : {<<"c1">>, <<"c2">>}, args : {"{file_path}"}]
    \cup {[name |-> "run_power_flow", id |-> NoId, args |-> NoArgs]}

Contents == {<<"answer A">>, <<"answer B">>}

\* What the model can answer on the first pass.
Responses ==
    [role : {"assistant"}, content : Contents, tool_calls : SeqsUpTo(ToolCalls, MaxCalls)]

\* What the model can answer on the second pass: it may ask for tools again.
FinalResponses ==
    [role : {"assistant"}, content : Contents,
     tool_calls : {<<>>} \cup {<<c>> : c \in {t \in ToolCalls : t.id = <<"c1">>}}]

ModelErrors == {<<"APIError">>}
ToolValues == {"{'status': 'success'}"}
ToolErrors == {"ToolException"}

\* The conversations a caller submits.
Histories ==
    { <<[role |-> "user", content |-> <<"q1">>]>>,
      <<[role |-> "user", content |-> <<"q1">>],
        [role |-> "assistant", content |-> <<"answer A">>, tool_calls |-> <<>>],
        [role |-> "user", content |-> <<"q2">>]>> }

\* The mcp_servers of a turn's configuration: the default of configuration.py
\* lines 27-40, another server, or no server at all.
NoServers == "{}"
ServerConfigs == {"pandapower", "custom", NoServers}

\* How the transport can behave in one turn: whether building the client raises,
\* whether get_tools() raises, and what it returns otherwise.
McpOutcomes == [create_raised : BOOLEAN, discover_raised : BOOLEAN, discovered : ToolLists]

\* A variant of GetMcpClient that builds a new client whenever the turn's server
\* definitions differ from those of the client it has.
GetMcpClientPerDefinitions(client, enable_mcp, servers, o) ==
    IF enable_mcp /\ ~o.create_raised /\ (client = NoClient \/ client.servers # servers)
    THEN [kind |-> "client", servers |-> servers]
    ELSE client

\* ---- get_mcp_client, lines 24-46: the value of _mcp_client after the call (a
\* constructor that raises leaves the global None).
GetMcpClient(client, enable_mcp, servers, o) ==
    IF client = NoClient /\ enable_mcp /\ ~o.create_raised
    THEN [kind |-> "client", servers |-> servers]
    ELSE client

\* ---- line 57: what mcp_client.get_tools() returns when it does not raise; a
\* client built over no server has nothing to enumerate.
Discovered(client, o) == IF client.servers = NoServers THEN <<>> ELSE o.discovered

\* A variant of GetMcpTools that hands out the tools of a client that exists
\* whatever enable_mcp says.
GetMcpToolsOfAnyClient(client, enable_mcp, servers, o) ==
    IF client = NoClient /\ (~enable_mcp \/ o.create_raised) THEN <<>>
    ELSE IF o.discover_raised THEN <<>>
    ELSE Discovered(IF client = NoClient THEN [kind |-> "client", servers |-> servers]
                    ELSE client, o)

\* ---- get_mcp_tools, lines 49-64
GetMcpTools(client, enable_mcp, servers, o) ==
    IF ~enable_mcp THEN <<>>
    ELSE IF client = NoClient /\ o.create_raised THEN <<>>
    ELSE IF GetMcpClient(client, enable_mcp, servers, o) = NoClient THEN <<>>
    ELSE IF o.discover_raised THEN <<>>
    ELSE Discovered(GetMcpClient(client, enable_mcp, servers, o), o)

\* A variant of CallsGetTools that enumerates the servers only in the turn that
\* builds the client.
CallsGetToolsWhenCreated(client, enable_mcp, servers, o) ==
    /\ enable_mcp
    /\ client = NoClient
    /\ ~o.create_raised

\* ---- lines 55-57: get_tools() is called in this turn.
CallsGetTools(client, enable_mcp, servers, o) ==
    /\ enable_mcp
    /\ ~(client = NoClient /\ o.create_raised)
    /\ GetMcpClient(client, enable_mcp, servers, o) # NoClient

\* ---- lines 61-63: the handler of get_mcp_tools took an exception.
McpRaised(client, enable_mcp, servers, o) ==
    /\ enable_mcp
    /\ \/ client = NoClient /\ o.create_raised
       \/ CallsGetTools(client, enable_mcp, servers, o) /\ o.discover_raised

\* ---- lines 128-130: the tools the model is bound to; none leaves it unbound.
BindTools(ts) == ts

NoBinding ==
    [enable_mcp |-> FALSE, servers |-> NoServers, no_channel |-> FALSE,
     raised |-> FALSE, enumerated |-> FALSE, enumerated_before |-> FALSE]

\* ---- lines 136-159: the system prompt.
EnhancedPrompt(ts) ==
    IF ts # <<>> THEN <<"chat_instructions", "tool guidance">>
    ELSE <<"chat_instructions">>

\* ---- line 162
BuildMessages(ts, history) ==
    <<[role |-> "system", content |-> EnhancedPrompt(ts)]>> \o history

\* ---- lines 239/241: AIMessage(content=...) keeps the content alone.
AIMessage(content) == [role |-> "assistant", content |-> content, tool_calls |-> <<>>]

\* ---- state.py line 11: the add_messages reducer appends the update.
AddMessages(left, right) == left \o right

RECURSIVE FirstMatch(_, _, _)
FirstMatch(ts, name, k) ==
    IF k > Len(ts) THEN 0
    ELSE IF ts[k].name = name THEN k
    ELSE FirstMatch(ts, name, k + 1)

\* A variant of MatchingTool that falls back on the first tool when no name matches.
MatchingToolOrFirst(ts, name) ==
    IF FirstMatch(ts, name, 1) # 0 THEN FirstMatch(ts, name, 1)
    ELSE IF ts # <<>> THEN 1 ELSE 0

\* ---- lines 177-181: the index in ts of the first tool named name, 0 for None.
MatchingTool(ts, name) == FirstMatch(ts, name, 1)

\* ---- tool_call.get("id", f"call_{tool_call['name']}"), lines 186/194/203
CallId(tc) == IF tc.id = NoId THEN <<"call_", tc.name>> ELSE tc.id

\* ---- tool_call.get("args", {}), lines 71/77
CallArgs(tc) == IF tc.args = NoArgs THEN EmptyArgs ELSE tc.args

\* ---- lines 185-189: str(result)
SuccessResult(tc, value) ==
    [tool_call_id |-> CallId(tc), name |-> tc.name, content |-> <<value>>]

\* ---- lines 192-197
NotFoundResult(tc) ==
    [tool_call_id |-> CallId(tc), name |-> tc.name,
     content |-> <<"Tool '", tc.name, "' not found">>]

\* ---- lines 200-206
FailedResult(tc, exc) ==
    [tool_call_id |-> CallId(tc), name |-> tc.name,
     content |-> <<"Tool '", tc.name, "' failed: ", exc>>]

\* A variant of ToolMessages that takes the results last-first.
ToolMessagesReversed(results) ==
    [k \in 1..Len(results) |->
        [role |-> "tool", content |-> results[Len(results) + 1 - k].content,
         tool_call_id |-> results[Len(results) + 1 - k].tool_call_id]]

\* ---- lines 227-232
ToolMessages(results) ==
    [k \in 1..Len(results) |->
        [role |-> "tool", content |-> results[k].content,
         tool_call_id |-> results[k].tool_call_id]]

\* ---- line 235
FollowUpMessages(msgs, resp, tool_messages) == msgs \o <<resp>> \o tool_messages

ChatInit ==
    /\ mcp_client = NoClient
    /\ tools_enumerated = FALSE
    /\ binding = NoBinding
    /\ pc = "idle"
    /\ state_messages = <<>>
    /\ tools = <<>>
    /\ messages = <<>>
    /\ response = NoResponse
    /\ idx = 0
    /\ tool_results = <<>>
    /\ final_response = NoResponse
    /\ update = <<>>
    /\ out_state = <<>>
    /\ failure = <<>>
    /\ llm_log = <<>>
    /\ tool_log = <<>>
    /\ in_flight = {}

\* ---- chat_node lines 97-162: a new graph.invoke enters the node, obtains the
\* tools and builds the first-pass messages.
BeginTurn ==
    /\ pc = "idle"
    /\ \E history \in Histories, enable_mcp \in BOOLEAN, servers \in ServerConfigs,
          o \in McpOutcomes :
          LET ts == GetMcpTools(mcp_client, enable_mcp, servers, o)
          IN  /\ mcp_client' = GetMcpClient(mcp_client, enable_mcp, servers, o)
              /\ tools_enumerated' =
                    (tools_enumerated \/ CallsGetTools(mcp_client, enable_mcp, servers, o))
              /\ binding' =
                    [enable_mcp |-> enable_mcp,
                     servers |-> servers,
                     no_channel |-> (servers = NoServers),
                     raised |-> McpRaised(mcp_client, enable_mcp, servers, o),
                     enumerated |-> CallsGetTools(mcp_client, enable_mcp, servers, o),
                     enumerated_before |-> tools_enumerated]
              /\ state_messages' = history
              /\ tools' = ts
              /\ messages' = BuildMessages(ts, history)
    /\ pc' = "first_pass"
    /\ UNCHANGED <<response, idx, tool_results, final_response, update, out_state,
                   failure, llm_log, tool_log, in_flight>>
    /\ UNCHANGED sessionVars

\* A model call that raised, as the turn's log keeps it.
Raised(msgs, exc) ==
    [messages |-> msgs, raised |-> TRUE, exc |-> exc, bound |-> BindTools(tools)]
Answered(msgs) ==
    [messages |-> msgs, raised |-> FALSE, exc |-> <<>>, bound |-> BindTools(tools)]

\* A variant of InvokeRaises that reports the failure as the turn's answer.
InvokeRaisesCaught(msgs, exc) ==
    /\ llm_log' = Append(llm_log, Raised(msgs, exc))
    /\ update' = <<AIMessage(<<"Error: ">> \o exc)>>
    /\ out_state' = AddMessages(state_messages, <<AIMessage(<<"Error: ">> \o exc)>>)
    /\ pc' = "done"
    /\ UNCHANGED failure

\* ---- lines 165 and 238: llm.invoke raises; no handler of chat_node is around
\* either call, so the exception leaves the node.
InvokeRaises(msgs, exc) ==
    /\ llm_log' = Append(llm_log, Raised(msgs, exc))
    /\ failure' = exc
    /\ pc' = "failed"
    /\ UNCHANGED <<update, out_state>>

\* A variant of HasToolCalls that looks at the attribute's presence alone.
HasToolCallsAttr(r) == TRUE

\* ---- line 168: hasattr(response, 'tool_calls') and response.tool_calls
HasToolCalls(r) == r.tool_calls # <<>>

\* ---- chat_node lines 165-168, 241: the first llm.invoke and the branch on it.
FirstPass ==
    /\ pc = "first_pass"
    /\ \/ \E exc \in ModelErrors :
            /\ InvokeRaises(messages, exc)
            /\ UNCHANGED <<response, idx>>
       \/ \E r \in Responses :
            /\ llm_log' = Append(llm_log, Answered(messages))
            /\ response' = r
            /\ IF HasToolCalls(r)
               THEN /\ pc' = "tools"
                    /\ idx' = 1
                    /\ UNCHANGED <<update, out_state>>
               ELSE /\ pc' = "done"
                    /\ update' = <<AIMessage(r.content)>>
                    /\ out_state' = AddMessages(state_messages, <<AIMessage(r.content)>>)
                    /\ UNCHANGED idx
            /\ UNCHANGED failure
    /\ UNCHANGED <<mcp_client, tools_enumerated, binding, state_messages, tools,
                   messages, tool_results, final_response, tool_log, in_flight>>
    /\ UNCHANGED sessionVars

\* One tool invocation, as the turn's log keeps it.
Invocation(call, tool, tc, raised, exc) ==
    [call |-> call, tool |-> tool.name, args |-> CallArgs(tc), raised |-> raised,
     exc |-> exc]

\* A variant of ToolRaises without the handler of lines 200-207.
ToolRaisesUncaught(tc, m, exc) ==
    /\ tool_log' = Append(tool_log, Invocation(idx, tools[m], tc, TRUE, exc))
    /\ failure' = <<exc>>
    /\ pc' = "failed"
    /\ UNCHANGED <<tool_results, idx>>

\* ---- lines 67-81 and 200-207: the invocation raises, execute_tool_async
\* re-raises, the handler of the loop body turns it into this call's result.
ToolRaises(tc, m, exc) ==
    /\ tool_log' = Append(tool_log, Invocation(idx, tools[m], tc, TRUE, exc))
    /\ tool_results' = Append(tool_results, FailedResult(tc, exc))
    /\ idx' = idx + 1
    /\ UNCHANGED <<failure, pc>>

\* A variant of CallAt that walks the requested calls from the last to the first.
CallAtReversed(tool_calls, i) == tool_calls[Len(tool_calls) + 1 - i]

\* ---- line 174: the call the i-th iteration of the loop handles.
CallAt(tool_calls, i) == tool_calls[i]

\* ---- lines 174-184 and 67-78: the loop body found the matching tool and
\* awaits its invocation; the loop goes no further until the await returns.
InvokeTool ==
    /\ pc = "tools"
    /\ idx <= Len(response.tool_calls)
    /\ idx \notin in_flight
    /\ MatchingTool(tools, CallAt(response.tool_calls, idx).name) # 0
    /\ in_flight' = in_flight \cup {idx}
    /\ UNCHANGED <<mcp_client, tools_enumerated, binding, pc, state_messages, tools,
                   messages, response, idx, tool_results, final_response, update,
                   out_state, failure, llm_log, tool_log>>
    /\ UNCHANGED sessionVars

\* ---- execute_all_tools lines 174-207: the rest of one iteration of the loop,
\* from the return of the awaited invocation (or, with no matching tool, the
\* whole iteration) to the appended result.
ExecuteToolCall ==
    /\ pc = "tools"
    /\ idx <= Len(response.tool_calls)
    /\ LET tc == CallAt(response.tool_calls, idx)
           m == MatchingTool(tools, tc.name)
       IN  IF m # 0
           THEN /\ idx \in in_flight
                /\ \/ \E value \in ToolValues :
                        /\ tool_log' = Append(tool_log,
                                              Invocation(idx, tools[m], tc, FALSE, ""))
                        /\ tool_results' = Append(tool_results, SuccessResult(tc, value))
                        /\ idx' = idx + 1
                        /\ UNCHANGED <<failure, pc>>
                   \/ \E exc \in ToolErrors : ToolRaises(tc, m, exc)
           ELSE /\ tool_results' = Append(tool_results, NotFoundResult(tc))
                /\ idx' = idx + 1
                /\ UNCHANGED <<tool_log, failure, pc>>
    /\ in_flight' = in_flight \ {idx}
    /\ UNCHANGED <<mcp_client, tools_enumerated, binding, state_messages, tools,
                   messages, response, final_response, update, out_state, llm_log>>
    /\ UNCHANGED sessionVars

\* A variant of FinalUpdate that returns everything the second pass added.
FinalUpdateWholeFollowUp(final, resp, tool_messages) ==
    <<resp>> \o tool_messages \o <<AIMessage(final.content)>>

\* ---- line 239: the state update of a turn that used tools.
FinalUpdate(final, resp, tool_messages) == <<AIMessage(final.content)>>

\* ---- chat_node lines 226-239: the tool messages, the second llm.invoke, the return.
SecondPass ==
    /\ pc = "tools"
    /\ idx > Len(response.tool_calls)
    /\ LET tool_messages == ToolMessages(tool_results)
           follow_up == FollowUpMessages(messages, response, tool_messages)
       IN  \/ \E exc \in ModelErrors :
                /\ InvokeRaises(follow_up, exc)
                /\ UNCHANGED final_response
           \/ \E r \in FinalResponses :
                /\ llm_log' = Append(llm_log, Answered(follow_up))
                /\ final_response' = r
                /\ update' = FinalUpdate(r, response, tool_messages)
                /\ out_state' = AddMessages(state_messages,
                                            FinalUpdate(r, response, tool_messages))
                /\ pc' = "done"
                /\ UNCHANGED failure
    /\ UNCHANGED <<mcp_client, tools_enumerated, binding, state_messages, tools,
                   messages, response, idx, tool_results, tool_log, in_flight>>
    /\ UNCHANGED sessionVars

\* ---- graph.invoke is over (lines 251-252, chat -> END): the locals of the turn
\* are gone, the module global stays.
Return ==
    /\ pc \in {"done", "failed"}
    /\ pc' = "idle"
    /\ state_messages' = <<>>
    /\ tools' = <<>>
    /\ messages' = <<>>
    /\ response' = NoResponse
    /\ idx' = 0
    /\ tool_results' = <<>>
    /\ final_response' = NoResponse
    /\ update' = <<>>
    /\ out_state' = <<>>
    /\ failure' = <<>>
    /\ llm_log' = <<>>
    /\ tool_log' = <<>>
    /\ in_flight' = {}
    /\ binding' = NoBinding
    /\ UNCHANGED <<mcp_client, tools_enumerated>>
    /\ UNCHANGED sessionVars

ChatNext ==
    \/ BeginTurn
    \/ FirstPass
    \/ InvokeTool
    \/ ExecuteToolCall
    \/ SecondPass
    \/ Return

\* =====================================================================
\*                            panda_mcp.py
\* =====================================================================

\* ---- line 36: _current_net = None
NoNet == [kind |-> "None"]

\* ---------------------------------------------------------------- networks

\* A pandapowerNet: the index of each element table, the elements taken out of
\* service, and the converged flag runpp leaves on it.
NetA ==
    [kind |-> "net", grid |-> "a.json", bus |-> <<0, 1, 2>>, line |-> <<0, 1>>,
     trafo |-> <<>>, gen |-> <<0>>, load |-> <<0, 1>>, switch |-> <<>>,
     out_of_service |-> {}, converged |-> FALSE]
NetB ==
    [kind |-> "net", grid |-> "g.p", bus |-> <<0, 1>>, line |-> <<3>>,
     trafo |-> <<0>>, gen |-> <<>>, load |-> <<0>>, switch |-> <<0>>,
     out_of_service |-> {}, converged |-> FALSE]
\* ---- line 59: pp.create_empty_network()
EmptyNet ==
    [kind |-> "net", grid |-> "empty", bus |-> <<>>, line |-> <<>>,
     trafo |-> <<>>, gen |-> <<>>, load |-> <<>>, switch |-> <<>>,
     out_of_service |-> {}, converged |-> FALSE]

ElementTables == {"bus", "line", "trafo", "gen", "load", "switch"}

\* net[element_type].index
Table(net, t) ==
    CASE t = "bus" -> net.bus
      [] t = "line" -> net.line
      [] t = "trafo" -> net.trafo
      [] t = "gen" -> net.gen
      [] t = "load" -> net.load
      [] t = "switch" -> net.switch

\* ------------------------------------------------------------------- files

\* A path is the tuple of its characters.
DotJson == <<".", "j", "s", "o", "n">>
DotP == <<".", "p">>

PathAJson == <<"a">> \o DotJson
PathGP == <<"g">> \o DotP
PathMissingJson == <<"m">> \o DotJson
PathBadJson == <<"b">> \o DotJson
PathBadP == <<"x">> \o DotP
PathCsv == <<"d", ".", "c", "s", "v">>
PathJsonNoDot == <<"j", "s", "o", "n">>
PathUpperJson == <<"a", ".", "J", "S", "O", "N">>

Paths == {PathAJson, PathGP, PathMissingJson, PathBadJson, PathBadP, PathCsv,
          PathJsonNoDot, PathUpperJson}

ReadNet(net) == [kind |-> "net", net |-> net, type |-> "", text |-> <<>>]
ReadRaises(type, text) == [kind |-> "raised", net |-> NoNet, type |-> type, text |-> text]

\* What pp.from_json / pp.from_pickle does with the file at each path.
FileContent(path) ==
    CASE path = PathAJson -> ReadNet(NetA)
      [] path = PathGP -> ReadNet(NetB)
      [] path = PathMissingJson ->
            ReadRaises("FileNotFoundError", <<"No such file or directory">>)
      [] path = PathBadJson -> ReadRaises("ValueError", <<"Expecting value">>)
      [] path = PathBadP -> ReadRaises("Exception", <<"invalid load key">>)
      [] path = PathCsv -> ReadNet(NetA)
      [] path = PathJsonNoDot -> ReadNet(NetA)
      [] path = PathUpperJson -> ReadNet(NetB)

\* str.endswith
EndsWith(s, suffix) ==
    /\ Len(s) >= Len(suffix)
    /\ SubSeq(s, Len(s) - Len(suffix) + 1, Len(s)) = suffix

\* A variant of LoadFormat that takes every other path for a pickle.
LoadFormatDefaultPickle(file_path) ==
    IF EndsWith(file_path, DotJson) THEN "json" ELSE "pickle"

\* ---- lines 88-93 and 300-305: the reader the extension selects.
LoadFormat(file_path) ==
    IF EndsWith(file_path, DotJson) THEN "json"
    ELSE IF EndsWith(file_path, DotP) THEN "pickle"
    ELSE "unsupported"

\* ------------------------------------------------------------------ solver

\* A missing value of a result table.
NaN == -1

\* ---- lines 201, 202 and 205: the limits, voltage in hundredths of per-unit.
VmMin == 95
VmMax == 105
LoadingMax == 100

Below(v, limit) == v # NaN /\ v < limit
\* A variant of Above in which a value at the limit counts as above it.
AboveOrAt(v, limit) == v # NaN /\ v >= limit
Above(v, limit) == v # NaN /\ v > limit

Flat(n, v) == [k \in 1..n |-> v]
\* Values at, just inside and just outside the limits; the pattern starts at a
\* place that depends on n, so that tables of two and of three buses together
\* hold all four values.
VmStressed(n) == [k \in 1..n |-> <<94, 95, 105, 106>>[((k - 1 + n) % 4) + 1]]
LoadingStressed(n) == [k \in 1..n |-> <<101, 100>>[((k - 1) % 2) + 1]]

Returned(converged, res_bus, res_line, res_trafo) ==
    [kind |-> "returned", converged |-> converged, res_bus |-> res_bus,
     res_line |-> res_line, res_trafo |-> res_trafo, type |-> "", text |-> <<>>]
SolverRaises(type, text) ==
    [kind |-> "raised", converged |-> FALSE, res_bus |-> <<>>, res_line |-> <<>>,
     res_trafo |-> <<>>, type |-> type, text |-> text]

\* What pp.runpp can do on a network: return converged, return without having
\* converged, or raise.  On something that is no network it can only raise.
SolverOutcomes(net) ==
    IF net = NoNet
    THEN {SolverRaises("Exception", <<"'NoneType' object is not subscriptable">>)}
    ELSE LET nb == Len(net.bus)
             nl == Len(net.line)
             nt == Len(net.trafo)
         IN  { Returned(TRUE, Flat(nb, 100), Flat(nl, 50), Flat(nt, 50)),
               Returned(TRUE, VmStressed(nb), LoadingStressed(nl), Flat(nt, 101)),
               Returned(FALSE, Flat(nb, NaN), Flat(nl, NaN), Flat(nt, NaN)),
               SolverRaises("RuntimeError", <<"solver state corrupt">>),
               SolverRaises("ValueError", <<"singular matrix">>),
               SolverRaises("Exception", <<"Power Flow nr did not converge">>) }

\* The network after pp.runpp(net): runpp keeps its verdict on the network.
AfterSolve(net, o) ==
    IF net = NoNet THEN net ELSE [net EXCEPT !.converged = o.converged]

\* ------------------------------------------------------------ tool results

Error(message) == [status |-> "error", message |-> message]

\* ---- line 46
NoNetworkMessage ==
    <<"No pandapower network is currently loaded. Please create or load a network first.">>

\* A variant of GetNetwork that hands out the global as it is.
GetNetworkUnchecked(cur) == [raised |-> FALSE, net |-> cur, text |-> <<>>]

\* ---- _get_network, lines 38-47
GetNetwork(cur) ==
    IF cur = NoNet
    THEN [raised |-> TRUE, net |-> NoNet, text |-> NoNetworkMessage]
    ELSE [raised |-> FALSE, net |-> cur, text |-> <<>>]

\* A variant of NetworkInfo that counts the transformers as lines and the lines
\* as transformers.
NetworkInfoLinesAsTrafos(net) ==
    [buses |-> Len(net.bus), lines |-> Len(net.trafo), trafos |-> Len(net.line)]

\* ---- lines 63-67, 98-102, 307-311
NetworkInfo(net) ==
    [buses |-> Len(net.bus), lines |-> Len(net.line), trafos |-> Len(net.trafo)]

\* The record of one tool function call.
Call(op, file_path, elements, pre_net, pre_loaded, reads, solves, result) ==
    [op |-> op, file_path |-> file_path, elements |-> elements, pre_net |-> pre_net,
     pre_loaded |-> pre_loaded, reads |-> reads, solves |-> solves, result |-> result]

NoElements == [given |-> FALSE, list |-> <<>>]
Given(list) == [given |-> TRUE, list |-> list]

\* The module state of panda_mcp.py as one value: the global, and what the
\* calls so far have reported.
Session == [net |-> current_net, loaded |-> ever_loaded, installed |-> installed]

\* A variant of Install that assigns the global only while it is None.
InstallOnce(s, net) ==
    IF s.net = NoNet THEN [net |-> net, loaded |-> TRUE, installed |-> net]
    ELSE [s EXCEPT !.loaded = TRUE, !.installed = net]

\* ---- lines 59, 89/91, 301/303: the assignment to the global _current_net.
Install(s, net) == [net |-> net, loaded |-> TRUE, installed |-> net]

\* A tool function call that is over: the session it leaves and its record.
Done(s, call) == [session |-> s, call |-> call]

Apply(e) ==
    /\ current_net' = e.session.net
    /\ ever_loaded' = e.session.loaded
    /\ installed' = e.session.installed
    /\ last' = e.call

\* The res_* tables of a network no solve has run on.
Unsolved == Returned(FALSE, <<>>, <<>>, <<>>)

\* No solve ran.
NotRun == SolverRaises("None", <<>>)

\* load_and_run_power_flow taken statement by statement is not under way.
LarIdle ==
    [pc |-> "idle", file_path |-> <<>>, pre_net |-> NoNet, pre_loaded |-> FALSE,
     network_info |-> NetworkInfo(EmptyNet), outcome |-> NotRun, solved |-> "",
     res |-> Unsolved, replaced |-> FALSE]

\* Another call assigns the global while a load_and_run_power_flow is under
\* way: the call now sees a network whose res_* tables hold res.
Reassigned(l, res) ==
    IF l.pc = "idle" THEN l ELSE [l EXCEPT !.replaced = TRUE, !.res = res]

SessionInit ==
    /\ current_net = NoNet
    /\ ever_loaded = FALSE
    /\ installed = NoNet
    /\ lar = LarIdle
    /\ last = Call("none", <<>>, NoElements, NoNet, FALSE, <<>>, <<>>, Error(<<>>))

\* A variant of CreateEmptyNetworkOn that binds the new network to a local name.
CreateEmptyNetworkLocal(s) ==
    Done([s EXCEPT !.loaded = TRUE, !.installed = EmptyNet],
         Call("create_empty_network", <<>>, NoElements, s.net, s.loaded, <<>>, <<>>,
              [status |-> "success",
               message |-> <<"Empty network created successfully">>,
               network_info |-> NetworkInfo(EmptyNet)]))

\* ---- create_empty_network, lines 49-73, on session s.  create_empty_network()
\* of pandapower takes no input and builds empty tables: it does not raise.
CreateEmptyNetworkOn(s) ==
    Done(Install(s, EmptyNet),
         Call("create_empty_network", <<>>, NoElements, s.net, s.loaded, <<>>, <<>>,
              [status |-> "success",
               message |-> <<"Empty network created successfully">>,
               network_info |-> NetworkInfo(EmptyNet)]))

CreateEmptyNetwork ==
    /\ Apply(CreateEmptyNetworkOn(Session))
    /\ lar' = Reassigned(lar, Unsolved)
    /\ UNCHANGED chatVars

\* A variant of LoadError without the last handler: the exception leaves the function.
LoadErrorNoCatchAll(file_path, type, text) ==
    IF type = "FileNotFoundError" THEN Error(<<"File not found: ">> \o file_path)
    ELSE IF type = "ValueError" THEN Error(text)
    ELSE [status |-> "exception", message |-> text]

\* ---- lines 104-118: what load_network returns for an exception of its try block.
LoadError(file_path, type, text) ==
    IF type = "FileNotFoundError" THEN Error(<<"File not found: ">> \o file_path)
    ELSE IF type = "ValueError" THEN Error(text)
    ELSE Error(<<"Failed to load network: ">> \o text)

\* ---- line 93 / 305
UnsupportedFormat == <<"Unsupported file format. Use .json or .p files.">>

\* The reader is selected and returns a network.
Loads(file_path) ==
    /\ LoadFormat(file_path) # "unsupported"
    /\ FileContent(file_path).kind = "net"

\* ---- load_network, lines 75-118, on session s
LoadNetworkOn(s, file_path) ==
    LET fmt == LoadFormat(file_path)
        content == FileContent(file_path)
    IN  IF fmt = "unsupported"
        THEN Done(s, Call("load_network", file_path, NoElements, s.net, s.loaded,
                          <<>>, <<>>,
                          LoadError(file_path, "ValueError", UnsupportedFormat)))
        ELSE IF content.kind = "raised"
        THEN Done(s, Call("load_network", file_path, NoElements, s.net, s.loaded,
                          <<[reader |-> fmt, path |-> file_path]>>, <<>>,
                          LoadError(file_path, content.type, content.text)))
        ELSE Done(Install(s, content.net),
                  Call("load_network", file_path, NoElements, s.net, s.loaded,
                       <<[reader |-> fmt, path |-> file_path]>>, <<>>,
                       [status |-> "success",
                        message |-> <<"Network loaded successfully from ">> \o file_path,
                        network_info |-> NetworkInfo(content.net)]))

LoadNetwork ==
    /\ \E file_path \in Paths :
          /\ Apply(LoadNetworkOn(Session, file_path))
          /\ lar' = IF Loads(file_path) THEN Reassigned(lar, Unsolved) ELSE lar
    /\ UNCHANGED chatVars

\* A variant of PowerFlowResult that reports a solve that did not converge as a failure.
PowerFlowResultStrict(o) ==
    IF o.kind = "raised"
    THEN IF o.type = "RuntimeError" THEN Error(o.text)
         ELSE Error(<<"Power flow calculation failed: ">> \o o.text)
    ELSE IF ~o.converged THEN Error(<<"Power flow did not converge">>)
    ELSE [status |-> "success",
          message |-> <<"Power flow calculation completed successfully">>,
          results |-> [bus_results |-> o.res_bus, line_results |-> o.res_line,
                       trafo_results |-> o.res_trafo, converged |-> o.converged]]

\* ---- lines 137-162: what run_power_flow returns once the solver has run.
PowerFlowResult(o) ==
    IF o.kind = "raised"
    THEN IF o.type = "RuntimeError" THEN Error(o.text)
         ELSE Error(<<"Power flow calculation failed: ">> \o o.text)
    ELSE [status |-> "success",
          message |-> IF o.converged
                      THEN <<"Power flow calculation completed successfully">>
                      ELSE <<"Power flow did not converge">>,
          results |-> [bus_results |-> o.res_bus, line_results |-> o.res_line,
                       trafo_results |-> o.res_trafo, converged |-> o.converged]]

\* ---- run_power_flow, lines 120-162, on session s, the solver doing o
RunPowerFlowOn(s, o) ==
    LET g == GetNetwork(s.net)
    IN  IF g.raised
        THEN Done(s, Call("run_power_flow", <<>>, NoElements, s.net, s.loaded,
                          <<>>, <<>>, Error(g.text)))
        ELSE Done([s EXCEPT !.net = AfterSolve(g.net, o)],
                  Call("run_power_flow", <<>>, NoElements, s.net, s.loaded, <<>>,
                       <<[out_of_service |-> {}, outcome |-> o]>>,
                       PowerFlowResult(o)))

RunPowerFlow ==
    /\ \E o \in SolverOutcomes(current_net) : Apply(RunPowerFlowOn(Session, o))
    /\ UNCHANGED lar
    /\ UNCHANGED chatVars

\* ---- line 210/217: f"{element_type}_{idx}"
ContingencyName(element_type, i) == <<element_type, "_", i>>

\* The positions 1..n of a result table, in order.
Positions(n) == [k \in 1..n |-> k]

\* ---- lines 200-203: the bus ids with vm_pu < 0.95 or vm_pu > 1.05
VoltageViolations(net, res_bus) ==
    LET ks == SelectSeq(Positions(Len(res_bus)),
                        LAMBDA k : Below(res_bus[k], VmMin) \/ Above(res_bus[k], VmMax))
    IN  [p \in 1..Len(ks) |-> net.bus[ks[p]]]

\* ---- lines 204-206: the line ids with loading_percent > 100
LoadingViolations(net, res_line) ==
    LET ks == SelectSeq(Positions(Len(res_line)),
                        LAMBDA k : Above(res_line[k], LoadingMax))
    IN  [p \in 1..Len(ks) |-> net.line[ks[p]]]

\* ---- lines 195-220: the outcome recorded for one element.
ContingencyOutcome(net, element, o) ==
    IF o.kind = "raised"
    THEN [contingency |-> ContingencyName(element[1], element[2]),
          converged |-> FALSE, error |-> o.text]
    ELSE [contingency |-> ContingencyName(element[1], element[2]),
          converged |-> o.converged,
          violations |-> [voltage_violations |-> VoltageViolations(net, o.res_bus),
                          loading_violations |-> LoadingViolations(net, o.res_line)]]

\* ---- lines 185-186
ElementsOrDefault(elements) ==
    IF elements.given THEN elements.list ELSE <<"line", "trafo">>

\* net[element_type] raises KeyError for a name that is no table of the network.
RECURSIVE FirstUnknown(_, _)
FirstUnknown(types, k) ==
    IF k > Len(types) THEN 0
    ELSE IF types[k] \notin ElementTables THEN k
    ELSE FirstUnknown(types, k + 1)

\* ---- lines 189-190: the elements the two loops visit, in order, up to the
\* first name that is no table.
RECURSIVE Visited(_, _, _)
Visited(net, types, k) ==
    IF k > Len(types) \/ types[k] \notin ElementTables THEN <<>>
    ELSE [i \in 1..Len(Table(net, types[k])) |-> <<types[k], Table(net, types[k])[i]>>]
         \o Visited(net, types, k + 1)

\* A variant of SweepOutcomes in which the first re-solve that raises ends the sweep.
SweepOutcomesUntilError(net, plan, sol, n) ==
    LET failed == {i \in 1..n : sol[i].kind = "raised"}
        stop == IF failed = {} THEN n
                ELSE CHOOSE i \in failed : \A j \in failed : i <= j
    IN  [i \in 1..stop |-> ContingencyOutcome(net, plan[i], sol[i])]

\* ---- lines 189-220: results after the first n elements.
SweepOutcomes(net, plan, sol, n) ==
    [i \in 1..n |-> ContingencyOutcome(net, plan[i], sol[i])]

\* A variant of ContingencyNet in which each duplicate is taken from the previous
\* contingency's network, so that the outages accumulate.
ContingencyNetCumulative(orig_net, plan, i) ==
    [orig_net EXCEPT !.out_of_service = @ \cup {plan[j] : j \in 1..i}]

\* ---- lines 180, 192-193: the network the i-th re-solve runs on, a duplicate of
\* the network as it was before the sweep with the one element out of service.
ContingencyNet(orig_net, plan, i) ==
    [orig_net EXCEPT !.out_of_service = @ \cup {plan[i]}]

\* The element lists a caller passes.
ElementInputs ==
    { NoElements, Given(<<>>), Given(<<"line">>), Given(<<"trafo", "line">>),
      Given(<<"bus">>), Given(<<"line", "feeder">>), Given(<<"feeder", "line">>) }

\* A variant of SweepResult that hands back the outcomes recorded before the
\* sweep was cut short.
SweepResultPartial(net, types, plan, sol, n, fail_at, exc) ==
    [status |-> "success",
     message |-> <<"Contingency analysis completed">>,
     results |-> SweepOutcomes(net, plan, sol, n)]

\* The exceptions a duplication or a switch-off can raise, by the handler that
\* takes them.
CopyErrors == {"RuntimeError", "Exception"}

\* ---- lines 222-236: what the call returns after n re-solves: the error of one
\* of the outer handlers when a duplication or a switch-off raised exc
\* (fail_at # 0), the error of the catch-all handler when a name was no table of
\* the network (a KeyError), else all outcomes.
SweepResult(net, types, plan, sol, n, fail_at, exc) ==
    IF fail_at # 0
    THEN IF exc = "RuntimeError"
         THEN Error(<<"deepcopy failed">>)
         ELSE Error(<<"Contingency analysis failed: ", "deepcopy failed">>)
    ELSE IF FirstUnknown(types, 1) # 0
    THEN Error(<<"Contingency analysis failed: ", types[FirstUnknown(types, 1)]>>)
    ELSE [status |-> "success",
          message |-> <<"Contingency analysis completed">>,
          results |-> SweepOutcomes(net, plan, sol, n)]

\* ---- run_contingency_analysis, lines 164-236.  fail_at is the element at
\* which duplicating the network or switching the element off raises (0: none);
\* the duplication of line 180 can raise also when there is no element to visit.
RunContingencyAnalysis ==
    /\ \E elements \in ElementInputs :
          LET g == GetNetwork(current_net)
          IN  IF g.raised
              THEN last' = Call("run_contingency_analysis", <<>>, elements, current_net,
                                ever_loaded, <<>>, <<>>, Error(g.text))
              ELSE LET types == ElementsOrDefault(elements)
                       plan == Visited(g.net, types, 1)
                   IN  \E fail_at \in 0..(IF plan = <<>> THEN 1 ELSE Len(plan)) :
                          LET n == IF fail_at = 0 THEN Len(plan) ELSE fail_at - 1
                          IN  \E sol \in [1..n -> SolverOutcomes(g.net)],
                                 exc \in IF fail_at = 0 THEN {""} ELSE CopyErrors :
                                 LET solves ==
                                        [i \in 1..n |->
                                            [out_of_service |->
                                                ContingencyNet(g.net, plan, i)
                                                   .out_of_service,
                                             outcome |-> sol[i]]]
                                     result ==
                                        SweepResult(g.net, types, plan, sol, n, fail_at,
                                                    exc)
                                 IN  last' = Call("run_contingency_analysis", <<>>,
                                                  elements, current_net, ever_loaded,
                                                  <<>>, solves, result)
    /\ UNCHANGED <<current_net, ever_loaded, installed, lar>>
    /\ UNCHANGED chatVars

\* ---- get_network_info, lines 238-274
GetNetworkInfo ==
    /\ LET g == GetNetwork(current_net)
       IN  IF g.raised
           THEN last' = Call("get_network_info", <<>>, NoElements, current_net,
                             ever_loaded, <<>>, <<>>, Error(g.text))
           ELSE IF g.net = NoNet
           THEN last' = Call("get_network_info", <<>>, NoElements, current_net,
                             ever_loaded, <<>>, <<>>,
                             Error(<<"Failed to get network information: ",
                                     "'NoneType' object has no attribute 'bus'">>))
           ELSE last' = Call("get_network_info", <<>>, NoElements, current_net,
                             ever_loaded, <<>>, <<>>,
                             [status |-> "success",
                              message |-> <<"Network information retrieved successfully">>,
                              info |-> [buses |-> Len(g.net.bus),
                                        lines |-> Len(g.net.line),
                                        trafos |-> Len(g.net.trafo),
                                        generators |-> Len(g.net.gen),
                                        loads |-> Len(g.net.load),
                                        switches |-> Len(g.net.switch),
                                        bus_data |-> g.net.bus,
                                        line_data |-> g.net.line,
                                        trafo_data |-> g.net.trafo]])
    /\ UNCHANGED <<current_net, ever_loaded, installed, lar>>
    /\ UNCHANGED chatVars

\* ---- lines 333-347: what load_and_run_power_flow returns for an exception of
\* its try block, raised by the reader or by the solver.
LoadAndRunError(file_path, type, text) ==
    IF type = "FileNotFoundError" THEN Error(<<"File not found: ">> \o file_path)
    ELSE IF type = "ValueError" THEN Error(text)
    ELSE Error(<<"Failed to load network and run power flow: ">> \o text)

\* ---- lines 326-331: the success result of load_and_run_power_flow.
LoadAndRunSuccess(file_path, network_info, res, converged) ==
    [status |-> "success",
     message |-> IF converged
                 THEN <<"Network loaded from ">> \o file_path
                      \o <<" and power flow completed successfully">>
                 ELSE <<"Network loaded from ">> \o file_path
                      \o <<" but power flow did not converge">>,
     network_info |-> network_info,
     power_flow_results |->
        [bus_results |-> res.res_bus, line_results |-> res.res_line,
         trafo_results |-> res.res_trafo, converged |-> converged]]

\* A variant of LoadAndRunPowerFlowOn that loads into a local name and leaves
\* the global as it was.
LoadAndRunPowerFlowLocal(s, file_path, o) ==
    LET fmt == LoadFormat(file_path)
        content == FileContent(file_path)
    IN  IF fmt = "unsupported"
        THEN Done(s, Call("load_and_run_power_flow", file_path, NoElements, s.net,
                          s.loaded, <<>>, <<>>,
                          LoadAndRunError(file_path, "ValueError", UnsupportedFormat)))
        ELSE IF content.kind = "raised"
        THEN Done(s, Call("load_and_run_power_flow", file_path, NoElements, s.net,
                          s.loaded, <<[reader |-> fmt, path |-> file_path]>>, <<>>,
                          LoadAndRunError(file_path, content.type, content.text)))
        ELSE Done([s EXCEPT !.loaded = TRUE, !.installed = content.net],
                  Call("load_and_run_power_flow", file_path, NoElements, s.net,
                       s.loaded, <<[reader |-> fmt, path |-> file_path]>>,
                       <<[out_of_service |-> {}, outcome |-> o]>>,
                       IF o.kind = "raised"
                       THEN LoadAndRunError(file_path, o.type, o.text)
                       ELSE LoadAndRunSuccess(file_path, NetworkInfo(content.net), o,
                                              o.converged)))

\* ---- load_and_run_power_flow, lines 276-347, on session s, the solver doing
\* o, with no other call in between its statements.
LoadAndRunPowerFlowOn(s, file_path, o) ==
    LET fmt == LoadFormat(file_path)
        content == FileContent(file_path)
    IN  IF fmt = "unsupported"
        THEN Done(s, Call("load_and_run_power_flow", file_path, NoElements, s.net,
                          s.loaded, <<>>, <<>>,
                          LoadAndRunError(file_path, "ValueError", UnsupportedFormat)))
        ELSE IF content.kind = "raised"
        THEN Done(s, Call("load_and_run_power_flow", file_path, NoElements, s.net,
                          s.loaded, <<[reader |-> fmt, path |-> file_path]>>, <<>>,
                          LoadAndRunError(file_path, content.type, content.text)))
        ELSE Done([Install(s, content.net) EXCEPT !.net = AfterSolve(content.net, o)],
                  Call("load_and_run_power_flow", file_path, NoElements, s.net,
                       s.loaded, <<[reader |-> fmt, path |-> file_path]>>,
                       <<[out_of_service |-> {}, outcome |-> o]>>,
                       IF o.kind = "raised"
                       THEN LoadAndRunError(file_path, o.type, o.text)
                       ELSE LoadAndRunSuccess(file_path, NetworkInfo(content.net), o,
                                              o.converged)))

\* What the solver can do in a load_and_run_power_flow(file_path) call.
SolverOutcomesFor(file_path) ==
    IF Loads(file_path) THEN SolverOutcomes(FileContent(file_path).net) ELSE {NotRun}

LoadAndRunPowerFlow ==
    /\ \E file_path \in Paths :
          \E o \in SolverOutcomesFor(file_path) :
             /\ Apply(LoadAndRunPowerFlowOn(Session, file_path, o))
             /\ lar' = IF Loads(file_path)
                       THEN Reassigned(lar, IF o.kind = "raised" THEN Unsolved ELSE o)
                       ELSE lar
    /\ UNCHANGED chatVars

\* ---- load_and_run_power_flow statement by statement, other calls running in
\* between.  Lines 296-305: the load step; a load that fails ends the call.
LarLoad ==
    /\ lar.pc = "idle"
    /\ \E file_path \in Paths :
          IF Loads(file_path)
          THEN /\ current_net' = Install(Session, FileContent(file_path).net).net
               /\ ever_loaded' = Install(Session, FileContent(file_path).net).loaded
               /\ installed' = Install(Session, FileContent(file_path).net).installed
               /\ lar' = [LarIdle EXCEPT !.pc = "loaded", !.file_path = file_path,
                                         !.pre_net = current_net,
                                         !.pre_loaded = ever_loaded]
               /\ UNCHANGED last
          ELSE /\ Apply(LoadAndRunPowerFlowOn(Session, file_path, NotRun))
               /\ UNCHANGED lar
    /\ UNCHANGED chatVars

\* ---- lines 307-311: the counts, read from the global.
LarInfo ==
    /\ lar.pc = "loaded"
    /\ lar' = [lar EXCEPT !.pc = "counted", !.network_info = NetworkInfo(current_net)]
    /\ UNCHANGED <<current_net, ever_loaded, installed, last>>
    /\ UNCHANGED chatVars

\* ---- lines 313-316: pp.runpp on the global; an exception ends the call.
LarSolve ==
    /\ lar.pc = "counted"
    /\ \E o \in SolverOutcomes(current_net) :
          /\ current_net' = AfterSolve(current_net, o)
          /\ IF o.kind = "raised"
             THEN /\ last' = Call("load_and_run_power_flow", lar.file_path, NoElements,
                                  lar.pre_net, lar.pre_loaded,
                                  <<[reader |-> LoadFormat(lar.file_path),
                                     path |-> lar.file_path]>>,
                                  <<[out_of_service |-> {}, outcome |-> o,
                                     net |-> current_net.grid,
                                     raced |-> lar.replaced]>>,
                                  LoadAndRunError(lar.file_path, o.type, o.text))
                  /\ lar' = LarIdle
             ELSE /\ lar' = [lar EXCEPT !.pc = "solved", !.outcome = o, !.res = o,
                                        !.solved = current_net.grid]
                  /\ UNCHANGED last
    /\ UNCHANGED <<ever_loaded, installed>>
    /\ UNCHANGED chatVars

\* ---- lines 318-331: the result tables and the converged flag, read from the
\* global, and the return.
LarReturn ==
    /\ lar.pc = "solved"
    /\ last' = Call("load_and_run_power_flow", lar.file_path, NoElements,
                    lar.pre_net, lar.pre_loaded,
                    <<[reader |-> LoadFormat(lar.file_path), path |-> lar.file_path]>>,
                    <<[out_of_service |-> {}, outcome |-> lar.outcome,
                       net |-> lar.solved, raced |-> lar.replaced]>>,
                    LoadAndRunSuccess(lar.file_path, lar.network_info, lar.res,
                                      current_net.converged))
    /\ lar' = LarIdle
    /\ UNCHANGED <<current_net, ever_loaded, installed>>
    /\ UNCHANGED chatVars

RaceNext ==
    \/ LarLoad
    \/ LarInfo
    \/ LarSolve
    \/ LarReturn
    \/ CreateEmptyNetwork
    \/ LoadNetwork
    \/ LoadAndRunPowerFlow

\* load_and_run_power_flow(file_path) set beside load_network(file_path)
\* followed by run_power_flow(): both start from the session as it is, and the
\* solver does the same on the network of the file in both.  When the load
\* fails run_power_flow() solves the network that was there before.
RoundTrip ==
    /\ \E file_path \in Paths :
          \E o \in SolverOutcomesFor(file_path) :
             LET combined == LoadAndRunPowerFlowOn(Session, file_path, o)
                 loaded == LoadNetworkOn(Session, file_path)
             IN  \E o2 \in IF Loads(file_path) THEN {o}
                            ELSE SolverOutcomes(loaded.session.net) :
                    LET solved == RunPowerFlowOn(loaded.session, o2)
                    IN  Apply(Done(combined.session,
                                   Call("round_trip", file_path, NoElements,
                                        current_net, ever_loaded, <<>>, <<>>,
                                        [combined |-> combined,
                                         separate_load |-> loaded,
                                         separate_run |-> solved])))
    /\ UNCHANGED lar
    /\ UNCHANGED chatVars

RoundTripNext ==
    \/ CreateEmptyNetwork
    \/ LoadNetwork
    \/ RunPowerFlow
    \/ RoundTrip

SessionNext ==
    \/ CreateEmptyNetwork
    \/ LoadNetwork
    \/ RunPowerFlow
    \/ RunContingencyAnalysis
    \/ GetNetworkInfo
    \/ LoadAndRunPowerFlow

Init == ChatInit /\ SessionInit

ChatSpec == Init /\ [][ChatNext]_vars

SessionSpec == Init /\ [][SessionNext]_vars

RoundTripSpec == Init /\ [][RoundTripNext]_vars

RaceSpec == Init /\ [][RaceNext]_vars

\* =====================================================================
\*                    Properties of the chat node
\* =====================================================================

\* The tool calls the first response asks for, and how many there are.
Requested == response.tool_calls
NRequested == Len(response.tool_calls)

\* Some bound tool carries exactly the name the call asks for.
IsBound(tc) == \E k \in 1..Len(tools) : tools[k].name = tc.name

\* How many requested calls the loop has dealt with so far.
Processed == IF pc = "tools" THEN idx - 1 ELSE NRequested

\* The log entries of requested call j.
InvocationsOf(j) == {p \in 1..Len(tool_log) : tool_log[p].call = j}

\* C1: whenever the first model response of a turn carries no tool call, the turn
\* is over with exactly one model invocation, no tool invocation, and a state
\* update of one assistant message whose content is that response's content.
C1_NoToolCallsOneInvocation ==
    (response # NoResponse /\ NRequested = 0) =>
        /\ pc = "done"
        /\ Len(llm_log) = 1
        /\ tool_log = <<>>
        /\ Len(update) = 1
        /\ update[1].role = "assistant"
        /\ update[1].content = response.content

C1_Witness ==
    /\ pc = "done"
    /\ response # NoResponse
    /\ NRequested = 0
    /\ tools # <<>>
    /\ Len(llm_log) = 1

\* C2: for a first response with k >= 1 tool calls there is one result per call
\* dealt with; a call whose name is no bound tool's name has the not-found
\* result and no invocation; a call whose name is a bound tool's has exactly one
\* invocation, of the tool of that name with the call's arguments; and once the
\* turn is over there are k results and exactly two model invocations, whatever
\* the tools did.
C2_ToolCallResolution ==
    (response # NoResponse /\ NRequested >= 1) =>
        /\ Len(tool_results) = Processed
        /\ \A j \in 1..Processed :
              LET tc == Requested[j]
              IN  IF IsBound(tc)
                  THEN /\ Cardinality(InvocationsOf(j)) = 1
                       /\ \A p \in InvocationsOf(j) :
                             /\ tool_log[p].tool = tc.name
                             /\ tc.args # NoArgs => tool_log[p].args = tc.args
                             /\ tc.args = NoArgs => tool_log[p].args = EmptyArgs
                  ELSE /\ InvocationsOf(j) = {}
                       /\ tool_results[j].content = <<"Tool '", tc.name, "' not found">>
        /\ \A p \in 1..Len(tool_log) : tool_log[p].call \in 1..Processed
        /\ pc = "tools" => Len(llm_log) = 1
        /\ pc \in {"done", "failed"} =>
              /\ Len(tool_results) = NRequested
              /\ Len(llm_log) = 2

C2_Witness ==
    /\ pc = "done"
    /\ NRequested = 2
    /\ ~IsBound(Requested[1])
    /\ IsBound(Requested[2])
    /\ Len(tool_log) = 1
    /\ tool_log[1].raised
    /\ Len(llm_log) = 2

\* C3: what the second model invocation is given is the system prompt, the
\* caller's messages unchanged and in order, the first response, and then one
\* tool message per requested call, in request order, the j-th with the id of
\* the j-th requested call.
C3_SecondPassMessages ==
    Len(llm_log) = 2 =>
        LET sent == llm_log[2].messages
            h == Len(state_messages)
        IN  /\ Len(sent) = h + NRequested + 2
            /\ sent[1].role = "system"
            /\ sent[1] = llm_log[1].messages[1]
            /\ \A j \in 1..h : sent[1 + j] = state_messages[j]
            /\ sent[h + 2] = response
            /\ \A j \in 1..NRequested :
                  /\ sent[h + 2 + j].role = "tool"
                  /\ sent[h + 2 + j].content = tool_results[j].content
                  /\ Requested[j].id # NoId =>
                        sent[h + 2 + j].tool_call_id = Requested[j].id

C3_Witness ==
    /\ Len(llm_log) = 2
    /\ NRequested = 2
    /\ Len(state_messages) = 3
    /\ Requested[1].id = <<"c2">>
    /\ Requested[2].id = <<"c1">>

\* C4: a turn invokes the model at most twice; the second response ends the
\* turn even when it asks for tools, none of which is dispatched; and the state
\* update of a finished turn is one assistant message with the terminal
\* response's content and nothing else, appended to the caller's messages.
C4_SingleRound ==
    /\ Len(llm_log) <= 2
    /\ \A p \in 1..Len(tool_log) : tool_log[p].call \in 1..NRequested
    /\ Len(tool_log) <= NRequested
    /\ final_response # NoResponse =>
          /\ pc = "done"
          /\ Len(tool_results) = NRequested
          /\ update = <<[role |-> "assistant", content |-> final_response.content,
                         tool_calls |-> <<>>]>>
    /\ pc = "done" =>
          /\ Len(update) = 1
          /\ update[1].role = "assistant"
          /\ update[1].tool_calls = <<>>
          /\ out_state = state_messages \o update

C4_Witness ==
    /\ pc = "done"
    /\ final_response # NoResponse
    /\ final_response.tool_calls # <<>>
    /\ IsBound(final_response.tool_calls[1])
    /\ Len(tool_log) = NRequested

\* C5: an exception raised by the invocation for call j becomes the failure
\* result of call j, with the exception's text in it; the loop goes on to the
\* calls after j, and the turn still makes its second model invocation.
C5_ToolExceptionContained ==
    \A p \in 1..Len(tool_log) :
        tool_log[p].raised =>
            LET j == tool_log[p].call
            IN  /\ j <= Len(tool_results)
                /\ tool_results[j].content =
                      <<"Tool '", Requested[j].name, "' failed: ", tool_log[p].exc>>
                /\ failure # <<tool_log[p].exc>>
                /\ pc = "tools" => idx > j
                /\ pc # "tools" =>
                      /\ Len(llm_log) = 2
                      /\ Len(tool_results) = NRequested
                      /\ \A i \in (j + 1)..NRequested :
                            IsBound(Requested[i]) => InvocationsOf(i) # {}

C5_Witness ==
    /\ pc = "done"
    /\ NRequested = 2
    /\ Len(tool_log) = 2
    /\ tool_log[1].raised
    /\ ~tool_log[2].raised
    /\ Len(llm_log) = 2

\* C6: a model invocation that raises, the first or the second, ends the turn
\* with that exception and without any state update; when it is the second,
\* the requested tool calls have all been dealt with by then.
C6_ModelFailurePropagates ==
    \A p \in 1..Len(llm_log) :
        llm_log[p].raised =>
            /\ p = Len(llm_log)
            /\ pc = "failed"
            /\ failure = llm_log[p].exc
            /\ update = <<>>
            /\ out_state = <<>>
            /\ p = 2 =>
                  /\ Len(tool_results) = NRequested
                  /\ \A i \in 1..NRequested :
                        IsBound(Requested[i]) => InvocationsOf(i) # {}

C6_WitnessSecond ==
    /\ pc = "failed"
    /\ Len(llm_log) = 2
    /\ llm_log[2].raised
    /\ Len(tool_log) >= 1

\* The system prompt carries the tool guidance of lines 139-157.
HasGuidance(prompt) == \E k \in 1..Len(prompt) : prompt[k] = "tool guidance"

\* Every model invocation of the turn so far had no tool bound and the plain
\* system prompt.
InvokedWithoutTools ==
    \A p \in 1..Len(llm_log) :
        /\ llm_log[p].bound = <<>>
        /\ llm_log[p].messages[1].role = "system"
        /\ llm_log[p].messages[1].content = <<"chat_instructions">>

\* The system prompt of the turn has the tool guidance exactly when the tool
\* list is not empty, and the model is bound to exactly the tool list.
GuidanceIffTools ==
    /\ HasGuidance(messages[1].content) <=> tools # <<>>
    /\ \A p \in 1..Len(llm_log) :
          /\ llm_log[p].bound = tools
          /\ HasGuidance(llm_log[p].messages[1].content) <=> llm_log[p].bound # <<>>

\* C13 as stated: obtaining the tool list never ends the turn; in a turn with
\* tool integration disabled, with no server configured, or in which building
\* the client or get_tools() raised, the tool list is empty and the model is
\* invoked with no tool bound and the plain system prompt; the system prompt
\* has the tool guidance exactly when the tool list is not empty.
C13_AsStated ==
    pc # "idle" =>
        /\ pc = "first_pass" => failure = <<>>
        /\ (~binding.enable_mcp \/ binding.no_channel \/ binding.raised) =>
              /\ tools = <<>>
              /\ InvokedWithoutTools
        /\ GuidanceIffTools

\* C13, amended: the same, where "no server configured" is said of the client
\* in use (the one the first enabled turn built) and not of this turn's
\* configuration.
C13_ToolListNeverFatal ==
    pc # "idle" =>
        /\ pc = "first_pass" => failure = <<>>
        /\ (\/ ~binding.enable_mcp
            \/ binding.raised
            \/ mcp_client.servers = NoServers) =>
              /\ tools = <<>>
              /\ InvokedWithoutTools
        /\ GuidanceIffTools

C13_Witness ==
    /\ pc = "done"
    /\ binding.enable_mcp
    /\ binding.raised
    /\ binding.enumerated
    /\ mcp_client # NoClient
    /\ mcp_client.servers = "pandapower"
    /\ tools = <<>>
    /\ Len(llm_log) = 1
    /\ llm_log[1].bound = <<>>

\* C16 as stated: the tool servers are enumerated once in a process; a turn
\* that comes after an enumeration does not call get_tools() again.
C16_AsStated == ~(binding.enumerated /\ binding.enumerated_before)

\* C16, amended: it is the client that is kept; get_tools() is called in every
\* turn that has tool integration enabled and a client, also after an earlier
\* turn has enumerated, and a turn has tools only from its own enumeration.
C16_EnumeratedEveryTurn ==
    pc # "idle" =>
        /\ binding.enumerated <=> (binding.enable_mcp /\ mcp_client # NoClient)
        /\ binding.enumerated_before => mcp_client # NoClient
        /\ (binding.enumerated_before /\ binding.enable_mcp) => binding.enumerated
        /\ tools # <<>> => binding.enumerated
        /\ tools_enumerated <=> mcp_client # NoClient

C16_Witness ==
    /\ pc = "first_pass"
    /\ binding.enable_mcp
    /\ binding.enumerated
    /\ binding.enumerated_before
    /\ tools # <<>>

\* =====================================================================
\*                 Properties of the analysis session
\* =====================================================================

NeedsNetwork == {"run_power_flow", "run_contingency_analysis", "get_network_info"}

\* C7: while no create or load has put a network in place (a failed load does
\* not count), run_power_flow, run_contingency_analysis and get_network_info
\* return an error with the no-network-loaded message, run no solve, and leave
\* the session without a network.
C7_NoNetworkLoaded ==
    (last.op \in NeedsNetwork /\ ~last.pre_loaded) =>
        /\ last.result.status = "error"
        /\ last.result.message = NoNetworkMessage
        /\ last.solves = <<>>
        /\ current_net = NoNet
        /\ ~ever_loaded

C7_Witness ==
    /\ last.op = "run_contingency_analysis"
    /\ ~last.pre_loaded
    /\ last.result.status = "error"

\* C8: load_network with a path that ends neither in .json nor in .p returns an
\* error, reads no file, and leaves the session's network as it was.
C8_UnsupportedExtension ==
    (/\ last.op = "load_network"
     /\ ~EndsWith(last.file_path, DotJson)
     /\ ~EndsWith(last.file_path, DotP)) =>
        /\ last.result.status = "error"
        /\ last.reads = <<>>
        /\ current_net = last.pre_net

C8_Witness ==
    /\ last.op = "load_network"
    /\ last.file_path = PathJsonNoDot
    /\ last.pre_net # NoNet
    /\ last.pre_net.grid = "g.p"
    /\ last.result.status = "error"

\* C9: with a network loaded, a solve that returns without having converged
\* gives a success result with converged = FALSE; run_power_flow returns an
\* error only when no network is loaded or the solver raised.
C9_NonConvergenceIsSuccess ==
    last.op = "run_power_flow" =>
        /\ (/\ last.pre_net # NoNet
            /\ Len(last.solves) = 1
            /\ last.solves[1].outcome.kind = "returned"
            /\ ~last.solves[1].outcome.converged) =>
                /\ last.result.status = "success"
                /\ last.result.results.converged = FALSE
        /\ last.result.status = "error" =>
                \/ last.pre_net = NoNet
                \/ /\ Len(last.solves) = 1
                   /\ last.solves[1].outcome.kind = "raised"

C9_Witness ==
    /\ last.op = "run_power_flow"
    /\ last.pre_net # NoNet
    /\ Len(last.solves) = 1
    /\ last.solves[1].outcome.kind = "returned"
    /\ ~last.solves[1].outcome.converged
    /\ last.result.status = "success"

\* The element types a sweep call goes through.
SweepTypes == IF last.elements.given THEN last.elements.list ELSE <<"line", "trafo">>

\* A duplication of the network, or a switch-off, raised during the sweep.
CopyFailed ==
    /\ last.result.status = "error"
    /\ last.result.message \in {<<"Contingency analysis failed: ", "deepcopy failed">>,
                               <<"deepcopy failed">>}

\* The sweep went over all its elements: every name is a table of the network,
\* no duplication raised and each element of those tables was re-solved.
SweepCompleted ==
    /\ last.op = "run_contingency_analysis"
    /\ last.pre_net # NoNet
    /\ ~CopyFailed
    /\ \A k \in 1..Len(SweepTypes) : SweepTypes[k] \in ElementTables
    /\ Len(last.solves) = Len(Visited(last.pre_net, SweepTypes, 1))

\* C10: a sweep over N elements of a loaded network returns success with
\* exactly N outcomes in iteration order (by default every line, then every
\* transformer), the i-th named after the i-th element, which is the one
\* element out of service in the i-th re-solve; the outcome of a re-solve that
\* raised has the error and converged = FALSE, and all other outcomes are there.
C10_SweepOutcomes ==
    SweepCompleted =>
        LET net == last.pre_net
            plan == Visited(net, SweepTypes, 1)
            N == Len(plan)
            results == last.result.results
        IN  /\ last.result.status = "success"
            /\ Len(results) = N
            /\ ~last.elements.given =>
                  /\ N = Len(net.line) + Len(net.trafo)
                  /\ \A i \in 1..Len(net.line) :
                        results[i].contingency = <<"line", "_", net.line[i]>>
                  /\ \A i \in 1..Len(net.trafo) :
                        results[Len(net.line) + i].contingency =
                            <<"trafo", "_", net.trafo[i]>>
            /\ \A i \in 1..N :
                  /\ results[i].contingency = <<plan[i][1], "_", plan[i][2]>>
                  /\ last.solves[i].out_of_service = {plan[i]}
                  /\ IF last.solves[i].outcome.kind = "raised"
                     THEN /\ "error" \in DOMAIN results[i]
                          /\ results[i].error = last.solves[i].outcome.text
                          /\ results[i].converged = FALSE
                     ELSE /\ "violations" \in DOMAIN results[i]
                          /\ results[i].converged = last.solves[i].outcome.converged

C10_Witness ==
    /\ SweepCompleted
    /\ ~last.elements.given
    /\ last.pre_net.grid = "g.p"
    /\ Len(last.result.results) = 2
    /\ last.solves[1].outcome.kind = "raised"
    /\ last.solves[2].outcome.kind = "returned"
    /\ "error" \in DOMAIN last.result.results[1]
    /\ last.result.results[2].contingency = <<"trafo", "_", 0>>

\* The network counts of a result, when it has them.
Counts(result) ==
    IF "network_info" \in DOMAIN result THEN <<result.network_info>> ELSE <<>>

\* The converged flag of a result, when it has one.
ConvergedFlag(result) ==
    IF "power_flow_results" \in DOMAIN result
    THEN <<result.power_flow_results.converged>>
    ELSE IF "results" \in DOMAIN result THEN <<result.results.converged>>
    ELSE <<>>

\* C11 as stated: for every path and every session, load_and_run_power_flow
\* gives the network counts load_network gives, the converged flag
\* run_power_flow then gives, and leaves the session network those two leave.
C11_AsStated ==
    last.op = "round_trip" =>
        LET r == last.result
        IN  /\ Counts(r.combined.call.result) = Counts(r.separate_load.call.result)
            /\ ConvergedFlag(r.combined.call.result)
                  = ConvergedFlag(r.separate_run.call.result)
            /\ r.combined.session.net = r.separate_run.session.net

\* C11, amended: for every path load_network loads and every session,
\* load_and_run_power_flow leaves the session network that load_network then
\* run_power_flow leave and gives the same converged flag (none when the solver
\* raises), and when the solver returns it gives the same network counts.
C11_RoundTrip ==
    (last.op = "round_trip"
     /\ last.result.separate_load.call.result.status = "success") =>
        LET r == last.result
            o == r.combined.call.solves[1].outcome
        IN  /\ r.combined.session.net = r.separate_run.session.net
            /\ r.combined.session.net.grid = FileContent(last.file_path).net.grid
            /\ ConvergedFlag(r.combined.call.result)
                  = ConvergedFlag(r.separate_run.call.result)
            /\ o.kind = "returned" =>
                  /\ ConvergedFlag(r.combined.call.result) = <<o.converged>>
                  /\ Counts(r.combined.call.result)
                        = Counts(r.separate_load.call.result)
                  /\ Counts(r.combined.call.result)
                        = <<NetworkInfo(FileContent(last.file_path).net)>>

C11_Witness ==
    /\ last.op = "round_trip"
    /\ last.file_path = PathGP
    /\ last.pre_net # NoNet
    /\ last.pre_net.grid = "a.json"
    /\ last.pre_net.converged
    /\ last.result.combined.call.result.status = "success"
    /\ ConvergedFlag(last.result.combined.call.result) = <<FALSE>>
    /\ current_net.grid = "g.p"

\* The calls that can put a network in place.
Installers == {"create_empty_network", "load_network", "load_and_run_power_flow"}

\* The bus, line and transformer counts get_network_info has reported.
InfoCounts(result) ==
    [buses |-> result.info.buses, lines |-> result.info.lines,
     trafos |-> result.info.trafos]

\* C12 as stated: after every create_empty_network, load_network or
\* load_and_run_power_flow call, failed ones included, a network is current;
\* and get_network_info reports the counts of the network the last create or
\* load that succeeded put in place.
C12_AsStated ==
    /\ last.op \in Installers => current_net # NoNet
    /\ (last.op = "get_network_info" /\ last.pre_loaded) =>
          /\ last.result.status = "success"
          /\ InfoCounts(last.result) = NetworkInfo(installed)

\* C12, amended: once a create or a load step has succeeded there is exactly
\* one current network, the one the last such step put in place (for
\* load_and_run_power_flow also when its solve then raised), and
\* get_network_info reports its counts; a successful load_network(path) puts
\* the network of that file in place; before any success, failed loads leave
\* the session without a network.
C12_CurrentNetwork ==
    /\ ever_loaded <=> current_net # NoNet
    /\ ever_loaded <=> installed # NoNet
    /\ ever_loaded =>
          /\ current_net.grid = installed.grid
          /\ NetworkInfo(current_net) = NetworkInfo(installed)
    /\ last.op = "get_network_info" =>
          IF last.pre_loaded
          THEN /\ last.result.status = "success"
               /\ InfoCounts(last.result) = NetworkInfo(installed)
          ELSE /\ last.result.status = "error"
               /\ current_net = NoNet
    /\ (last.op \in Installers /\ last.result.status = "success") =>
          /\ current_net # NoNet
          /\ last.result.network_info = NetworkInfo(installed)
          /\ last.op # "create_empty_network" =>
                installed = FileContent(last.file_path).net
    /\ (last.op \in {"load_network", "create_empty_network"}
        /\ last.result.status = "error") =>
          current_net = last.pre_net

C12_Witness ==
    /\ last.op = "get_network_info"
    /\ last.result.status = "success"
    /\ installed # NoNet
    /\ installed.grid = "g.p"
    /\ current_net.converged
    /\ last.result.info.buses = 2
    /\ last.result.info.trafos = 1

\* The six tool functions.
ToolFunctions == Installers \cup NeedsNetwork

\* The reader of the call raised.
ReaderRaised ==
    /\ last.reads # <<>>
    /\ FileContent(last.file_path).kind = "raised"

\* The one solve of the call raised.
SolverRaised ==
    /\ Len(last.solves) = 1
    /\ last.solves[1].outcome.kind = "raised"

\* C14: whatever the session and however the reader or the solver fails, a tool
\* function returns a result whose status is success or error and that has a
\* message; an exception of the reader, or of the solver in run_power_flow and
\* load_and_run_power_flow, ends up as an error result and never leaves the
\* function.
C14_ErrorsContained ==
    last.op \in ToolFunctions =>
        /\ last.result.status \in {"success", "error"}
        /\ "message" \in DOMAIN last.result
        /\ last.result.message # <<>>
        /\ ReaderRaised => last.result.status = "error"
        /\ (SolverRaised /\ last.op # "run_contingency_analysis") =>
              last.result.status = "error"
        /\ (last.op \in NeedsNetwork /\ last.pre_net = NoNet) =>
              last.result.status = "error"

C14_Witness ==
    /\ last.op = "load_network"
    /\ last.pre_net # NoNet
    /\ ReaderRaised
    /\ FileContent(last.file_path).type = "Exception"
    /\ last.result.status = "error"
    /\ current_net = last.pre_net

\* C15: create_empty_network returns success from every session, with counts
\* all zero, and leaves an empty network as the current one; from then on
\* get_network_info, run_power_flow and run_contingency_analysis do not return
\* the no-network-loaded error.
C15_CreateEmptyNetwork ==
    /\ last.op = "create_empty_network" =>
          /\ last.result.status = "success"
          /\ last.result.network_info = [buses |-> 0, lines |-> 0, trafos |-> 0]
          /\ current_net # NoNet
          /\ \A t \in ElementTables : Table(current_net, t) = <<>>
          /\ current_net # last.pre_net \/ last.pre_net.grid = "empty"
    /\ (last.op \in NeedsNetwork /\ last.pre_net # NoNet) =>
          last.result.message # NoNetworkMessage
    /\ (last.op \in {"get_network_info", "run_power_flow"} /\ last.pre_net # NoNet
        /\ last.pre_net.grid = "empty" /\ ~SolverRaised) =>
          last.result.status = "success"

C15_Witness ==
    /\ last.op = "run_contingency_analysis"
    /\ last.pre_net # NoNet
    /\ last.pre_net.grid = "empty"
    /\ last.result.status = "success"
    /\ last.result.results = <<>>
    /\ ~last.elements.given

\* C17: a load_network that fails leaves the current network as it was and
\* reports one of three things: the unsupported-format error for a path that
\* ends neither in .json nor in .p, the file-not-found error when the reader
\* finds no file, and 'Failed to load network: ...' with the exception's text
\* for every other exception of the reader.
C17_LoadFailureClassification ==
    (last.op = "load_network" /\ last.result.status = "error") =>
        /\ current_net = last.pre_net
        /\ LoadFormat(last.file_path) = "unsupported" =>
              last.result.message = UnsupportedFormat
        /\ (ReaderRaised /\ FileContent(last.file_path).type = "FileNotFoundError") =>
              last.result.message = <<"File not found: ">> \o last.file_path
        /\ (ReaderRaised /\ FileContent(last.file_path).type # "FileNotFoundError") =>
              last.result.message =
                 <<"Failed to load network: ">> \o FileContent(last.file_path).text

\* C18: when the solver raises in run_power_flow on a loaded network, whatever
\* the exception, the result is an error whose message is 'Power flow
\* calculation failed: ' followed by the exception's text, which tells it from
\* the no-network-loaded error.
C18_SolverFailureReported ==
    (last.op = "run_power_flow" /\ last.pre_net # NoNet /\ SolverRaised) =>
        /\ last.result.status = "error"
        /\ last.result.message =
              <<"Power flow calculation failed: ">> \o last.solves[1].outcome.text
        /\ last.result.message # NoNetworkMessage

\* The kind of an error message: the file-not-found report, a failure of the
\* operation reported under the function's prefix, or a bare message.
Category(message) ==
    IF message = <<>> THEN "bare"
    ELSE IF message[1] = "File not found: " THEN "file not found"
    ELSE IF message[1] \in {"Failed to load network: ",
                            "Failed to load network and run power flow: ",
                            "Power flow calculation failed: "}
    THEN "failed"
    ELSE "bare"

\* C19: load_and_run_power_flow reports errors as its two parts do.  When its
\* load step fails the solver is not called, the session network is as before
\* and the error is of the kind load_network returns for that path; when the
\* load succeeds and the solver raises, the error is of the kind run_power_flow
\* returns for that exception.
C19_SameErrorTaxonomy ==
    last.op = "load_and_run_power_flow" =>
        /\ ~Loads(last.file_path) =>
              LET alone == LoadNetworkOn([net |-> last.pre_net,
                                          loaded |-> last.pre_loaded,
                                          installed |-> last.pre_net],
                                         last.file_path).call.result
              IN  /\ last.solves = <<>>
                  /\ current_net = last.pre_net
                  /\ last.result.status = alone.status
                  /\ Category(last.result.message) = Category(alone.message)
        /\ (Loads(last.file_path) /\ SolverRaised) =>
              LET alone == PowerFlowResult(last.solves[1].outcome)
              IN  /\ last.result.status = alone.status
                  /\ Category(last.result.message) = Category(alone.message)

\* The network of the file a load_and_run_power_flow call was given.
OwnNet == FileContent(last.file_path).net

\* The result of the call describes the network of its own file: the counts
\* are that network's, the solve ran on it, and the tables and the converged
\* flag are those of that solve.
DescribesOwnNet ==
    /\ last.result.network_info.buses = Len(OwnNet.bus)
    /\ last.result.network_info.lines = Len(OwnNet.line)
    /\ last.result.network_info.trafos = Len(OwnNet.trafo)
    /\ "net" \in DOMAIN last.solves[1] => last.solves[1].net = OwnNet.grid
    /\ last.result.power_flow_results.bus_results = last.solves[1].outcome.res_bus
    /\ last.result.power_flow_results.line_results = last.solves[1].outcome.res_line
    /\ last.result.power_flow_results.trafo_results = last.solves[1].outcome.res_trafo
    /\ last.result.power_flow_results.converged = last.solves[1].outcome.converged
    /\ Len(last.result.power_flow_results.bus_results) = Len(OwnNet.bus)

\* Another call assigned the global between the load step of the call and its
\* return.
Raced == "raced" \in DOMAIN last.solves[1] /\ last.solves[1].raced

IdsWhere(ids, res, Test(_)) == {ids[k] : k \in {j \in 1..Len(res) : Test(res[j])}}

\* The members of a list of ids, and whether the list names each id once.
IdSet(list) == {list[p] : p \in 1..Len(list)}
NoRepeat(list) == Cardinality(IdSet(list)) = Len(list)

\* C21: in every outcome of a sweep whose re-solve did not raise, the voltage
\* violations are exactly the ids of the buses whose voltage magnitude is
\* strictly below 0.95 or strictly above 1.05 per unit (a bus at exactly 0.95 or
\* 1.05 is not listed), the loading violations are exactly the ids of the lines
\* loaded strictly above 100 percent (a line at exactly 100 is not listed), and
\* nothing else is reported: transformer loading never appears.
C21_ViolationThresholds ==
    (last.op = "run_contingency_analysis" /\ last.result.status = "success") =>
        \A i \in 1..Len(last.result.results) :
            LET o == last.solves[i].outcome
                r == last.result.results[i]
                net == last.pre_net
            IN  o.kind = "returned" =>
                   /\ DOMAIN r = {"contingency", "converged", "violations"}
                   /\ DOMAIN r.violations = {"voltage_violations", "loading_violations"}
                   /\ NoRepeat(r.violations.voltage_violations)
                   /\ NoRepeat(r.violations.loading_violations)
                   /\ IdSet(r.violations.voltage_violations)
                         = IdsWhere(net.bus, o.res_bus,
                                    LAMBDA v : v # NaN /\ (v < VmMin \/ v > VmMax))
                   /\ IdSet(r.violations.loading_violations)
                         = IdsWhere(net.line, o.res_line,
                                    LAMBDA v : v # NaN /\ v > LoadingMax)

\* A sweep of the three-bus network in which one re-solve returned voltages of
\* 1.06, 0.94 and exactly 0.95 and loadings of 101 and exactly 100 percent: the
\* first two buses and the first line are listed, the others are not.
C21_Witness ==
    /\ last.op = "run_contingency_analysis"
    /\ last.result.status = "success"
    /\ last.pre_net # NoNet
    /\ \E i \in 1..Len(last.result.results) :
          LET o == last.solves[i].outcome
              r == last.result.results[i]
          IN  /\ o.kind = "returned"
              /\ o.res_bus = <<106, 94, 95>>
              /\ o.res_line = <<101, 100>>
              /\ r.violations.voltage_violations
                    = <<last.pre_net.bus[1], last.pre_net.bus[2]>>
              /\ r.violations.loading_violations = <<last.pre_net.line[1]>>

\* A sweep of the network with a transformer in which a re-solve returned
\* voltages of exactly 1.05 and of 1.06 and a transformer loaded at 101 percent:
\* only the second bus is listed and the transformer is not.
C21_WitnessUpperLimit ==
    /\ last.op = "run_contingency_analysis"
    /\ last.result.status = "success"
    /\ last.pre_net # NoNet
    /\ \E i \in 1..Len(last.result.results) :
          LET o == last.solves[i].outcome
              r == last.result.results[i]
          IN  /\ o.kind = "returned"
              /\ o.res_bus = <<105, 106>>
              /\ o.res_trafo = <<101>>
              /\ r.violations.voltage_violations = <<last.pre_net.bus[2]>>
              /\ r.violations.loading_violations = <<last.pre_net.line[1]>>

\* ---------------------------------------------------------------------------
\* C22: run_contingency_analysis and get_network_info leave the session as it
\* was: after either call, whether it succeeded or returned an error, the current
\* network is the one that was there before the call, with the same elements in
\* service, and the record of whether a network was ever loaded is the same;
\* every re-solve of a sweep ran on a network that differs from the session's
\* only in having exactly the one element of that contingency out of service.
C22_SessionUnchanged ==
    last.op \in {"run_contingency_analysis", "get_network_info"} =>
        /\ current_net = last.pre_net
        /\ ever_loaded = last.pre_loaded
        /\ last.pre_net # NoNet =>
              LET plan == Visited(last.pre_net, SweepTypes, 1)
              IN  /\ current_net.out_of_service = last.pre_net.out_of_service
                  /\ Len(last.solves) <= Len(plan)
                  /\ \A i \in 1..Len(last.solves) :
                        /\ plan[i] \notin last.pre_net.out_of_service
                        /\ last.solves[i].out_of_service
                              = last.pre_net.out_of_service \cup {plan[i]}
                        /\ plan[i] \notin current_net.out_of_service

\* A sweep that re-solved at least two contingencies, one of which raised, and
\* left the session's network as it was, with everything in service.
C22_Witness ==
    /\ last.op = "run_contingency_analysis"
    /\ last.pre_net # NoNet
    /\ Len(last.solves) >= 2
    /\ \E i \in 1..Len(last.solves) : last.solves[i].outcome.kind = "raised"
    /\ last.solves[2].out_of_service # last.solves[1].out_of_service
    /\ current_net = last.pre_net
    /\ current_net.out_of_service = {}

\* get_network_info returned the description of a network and the session is as
\* it was.
C22_WitnessInfo ==
    /\ last.op = "get_network_info"
    /\ last.result.status = "success"
    /\ current_net = last.pre_net

\* =====================================================================
\*              Further properties of the conversation turn
\* =====================================================================

\* C23: within one turn the requested tool calls are executed strictly one after
\* another, in request order.  At most one invocation is awaited at any time; it
\* is the invocation of the call the loop stands at, every earlier call has its
\* result and no later call has been invoked; the invocations are logged, and
\* the results listed, in the order of the request; and when a load_network call
\* precedes a run_power_flow call in one response, the load has returned and its
\* result is recorded before the invocation of the solve begins.
C23_OneAtATimeInRequestOrder ==
    /\ Cardinality(in_flight) <= 1
    /\ in_flight # {} =>
          /\ pc = "tools"
          /\ in_flight = {idx}
          /\ idx <= NRequested
          /\ IsBound(Requested[idx])
          /\ Len(tool_results) = idx - 1
          /\ \A p \in 1..Len(tool_log) : tool_log[p].call < idx
    /\ (response # NoResponse /\ NRequested >= 1) =>
          /\ \A p, q \in 1..Len(tool_log) :
                p < q => tool_log[p].call < tool_log[q].call
          /\ \A j \in 1..Len(tool_results) :
                /\ tool_results[j].name = Requested[j].name
                /\ tool_results[j].tool_call_id = CallId(Requested[j])
          /\ \A i, j \in 1..NRequested :
                ( /\ i < j
                  /\ Requested[i].name = "load_network"
                  /\ Requested[j].name = "run_power_flow"
                  /\ IsBound(Requested[i])
                  /\ IsBound(Requested[j])
                  /\ (j \in in_flight \/ InvocationsOf(j) # {}) )
                =>
                   /\ i \notin in_flight
                   /\ Len(tool_results) >= i
                   /\ Cardinality(InvocationsOf(i)) = 1
                   /\ \A p \in InvocationsOf(i), q \in InvocationsOf(j) : p < q

\* The response asked for load_network and then run_power_flow, both bound: the
\* solve is being awaited, the load has been invoked once and has its result.
C23_Witness ==
    /\ pc = "tools"
    /\ response # NoResponse
    /\ NRequested = 2
    /\ Requested[1].name = "load_network"
    /\ Requested[2].name = "run_power_flow"
    /\ IsBound(Requested[1])
    /\ IsBound(Requested[2])
    /\ in_flight = {2}
    /\ Len(tool_log) = 1
    /\ tool_log[1].call = 1
    /\ Len(tool_results) = 1

\* A turn enters the node: the step from idle to the first pass.
TurnBegins == pc = "idle" /\ pc' = "first_pass"

\* C24 as stated: the client is created on the first turn that has tool
\* integration enabled and is kept from then on, so that no turn with tool
\* integration enabled is ever without a client.
C24_AsStated == (pc # "idle" /\ binding.enable_mcp) => mcp_client # NoClient

\* C24, amended: the client is a process-wide singleton.  Once there is a client
\* no step replaces or removes it.  A client appears only as a turn begins with
\* tool integration enabled, built from the server definitions of that turn,
\* and a turn that has tool integration enabled and finds no client ends up
\* without one only if building it raised -- then the next enabled turn tries
\* again, with its own definitions.  An enabled turn that finds a client
\* enumerates through that client, whatever definitions the turn supplies.  A
\* turn with tool integration disabled neither creates nor uses a client: the
\* global stays as it was, nothing is enumerated and the turn has no tools.
C24_ClientSingleton ==
    [][ /\ mcp_client # NoClient => mcp_client' = mcp_client
        /\ (mcp_client = NoClient /\ mcp_client' # NoClient) =>
              /\ TurnBegins
              /\ binding'.enable_mcp
              /\ mcp_client'.servers = binding'.servers
              /\ binding'.enumerated
        /\ (TurnBegins /\ binding'.enable_mcp /\ mcp_client = NoClient
               /\ mcp_client' = NoClient) =>
              /\ binding'.raised
              /\ ~binding'.enumerated
              /\ tools' = <<>>
        /\ (TurnBegins /\ binding'.enable_mcp /\ mcp_client # NoClient) =>
              /\ binding'.enumerated
              /\ tools' # <<>> => mcp_client.servers # NoServers
        /\ (TurnBegins /\ ~binding'.enable_mcp) =>
              /\ mcp_client' = mcp_client
              /\ ~binding'.enumerated
              /\ tools_enumerated' = tools_enumerated
              /\ tools' = <<>>
      ]_vars

\* A later turn supplies other server definitions than the ones the client was
\* built from, and has its tools through that client.
C24_Witness ==
    /\ pc = "first_pass"
    /\ binding.enable_mcp
    /\ binding.enumerated_before
    /\ binding.enumerated
    /\ binding.servers = "custom"
    /\ mcp_client # NoClient
    /\ mcp_client.servers = "pandapower"
    /\ tools # <<>>

\* A turn with tool integration disabled, in a process that has a client: the
\* client is there, the turn has no tools and enumerated nothing.
C24_WitnessDisabled ==
    /\ pc = "first_pass"
    /\ ~binding.enable_mcp
    /\ mcp_client # NoClient
    /\ tools = <<>>
    /\ ~binding.enumerated

\* =====================================================================
\*                 Sweeps that are cut short
\* =====================================================================

\* The sweep stopped before an element it was to visit: duplicating the network
\* for that element, or switching it off, raised.
CutShort == Len(last.solves) < Len(Visited(last.pre_net, SweepTypes, 1))

\* C25: when the elements list holds a name that is no element table of the
\* network, or duplicating the network or taking an element out of service
\* raises, the whole call returns an error-status result that carries no
\* outcomes at all -- the outcomes already recorded for earlier elements are
\* dropped; for an unknown name the message is that of the catch-all handler
\* with the name.  A re-solve that raises does not end the sweep: it is
\* recorded in the outcome of its element, and a sweep without an unknown name
\* and without such a failure returns success with one outcome per element.
C25_SweepAbortsWithoutOutcomes ==
    (last.op = "run_contingency_analysis" /\ last.pre_net # NoNet) =>
        LET plan == Visited(last.pre_net, SweepTypes, 1)
            unknown == FirstUnknown(SweepTypes, 1)
            aborted == unknown # 0 \/ CutShort \/ CopyFailed
        IN  /\ aborted =>
                  /\ last.result.status = "error"
                  /\ DOMAIN last.result = {"status", "message"}
            /\ (unknown # 0 /\ ~CutShort /\ ~CopyFailed) =>
                  last.result.message
                     = <<"Contingency analysis failed: ", SweepTypes[unknown]>>
            /\ ~aborted =>
                  /\ last.result.status = "success"
                  /\ Len(last.result.results) = Len(plan)
                  /\ Len(last.solves) = Len(plan)
                  /\ \A i \in 1..Len(plan) :
                        last.solves[i].outcome.kind = "raised" =>
                           /\ DOMAIN last.result.results[i]
                                 = {"contingency", "converged", "error"}
                           /\ last.result.results[i].error = last.solves[i].outcome.text
                           /\ ~last.result.results[i].converged

\* A sweep over the lines and then over a name that is no table: both lines
\* were re-solved, one of the re-solves raised, and the call returned an error
\* naming the unknown table, without any outcome.
C25_Witness ==
    /\ last.op = "run_contingency_analysis"
    /\ last.pre_net # NoNet
    /\ last.elements = Given(<<"line", "feeder">>)
    /\ Len(last.solves) = 2
    /\ last.solves[1].outcome.kind = "raised"
    /\ last.solves[2].outcome.kind = "returned"
    /\ last.result.status = "error"
    /\ last.result.message = <<"Contingency analysis failed: ", "feeder">>
    /\ "results" \notin DOMAIN last.result

\* A sweep in which the duplication for the second element raised after the
\* first element had been re-solved: an error without any outcome.
C25_WitnessCopyFailed ==
    /\ last.op = "run_contingency_analysis"
    /\ last.pre_net # NoNet
    /\ FirstUnknown(SweepTypes, 1) = 0
    /\ Len(last.solves) = 1
    /\ CutShort
    /\ CopyFailed
    /\ "results" \notin DOMAIN last.result

\* A sweep in which one re-solve raised and the others returned: success, with
\* the failure recorded in the outcome of its element.
C25_WitnessSolveFailed ==
    /\ last.op = "run_contingency_analysis"
    /\ last.result.status = "success"
    /\ Len(last.solves) = 2
    /\ last.solves[1].outcome.kind = "raised"
    /\ last.solves[2].outcome.kind = "returned"
    /\ "error" \in DOMAIN last.result.results[1]
    /\ "violations" \in DOMAIN last.result.results[2]

====
